---------------------------- MODULE Spec2Model ----------------------------
(***************************************************************************)
(* Model of the evaluation scripts of bincc:                               *)
(*   experiments/calculate_metrics.py   to_ccs and the two scoring passes   *)
(*   experiments/comparison/compare.py  compare and the jointp table        *)
(*   experiments/generate_ground_truth.py  the loop writing the ground truth *)
(* Every script is sequential; the names a script assigns are its state.    *)
(*   Spec         the scoring passes and the derived metrics                *)
(*   SpecCcs      the depth filter and to_ccs on one table                  *)
(*   SpecCompare  calls of compare on one pair of result sets               *)
(*   SpecGenerate the loop of generate_ground_truth.py over the amd64 map   *)
(***************************************************************************)
EXTENDS Integers, Sequences, FiniteSets, TLC

(***************************************************************************)
(* Bounds of the model.                                                    *)
(***************************************************************************)
\* greatest number of clone classes in one collection (gt, res)
MaxClasses == 2

\* greatest number of rows of a table given to to_ccs
MaxRows == 2

\* greatest clone_class_id of a row
MaxClassId == 1

\* greatest depth of a row and greatest min_depth
MaxDepth == 1

\* greatest number of calls of compare on one pair of result sets
MaxCalls == 2

\* greatest number of functions in the amd64 function map
MaxFuncs == 4

\* the function identifiers the clone classes of the scoring passes hold
Idents == {"A", "B", "C"}

VARIABLES
    \* calculate_metrics.py, the scoring part (lines 37-72)
    gt,            \* list of sets: to_ccs(filtered_truth)
    res,           \* list of sets: to_ccs(filtered_results)
    tp, fp, fn,    \* the three counters
    cc,            \* loop variable of both passes
    subset,        \* the subsumption flag of the current iteration
    best_score,    \* <<numerator, denominator>> of the best score so far
    best_other,    \* the class that gave best_score, set() when none did
    precision, recall, fscore,   \* <<numerator, denominator>>, <<0, 0>> unset
    pc,            \* "res_loop" | "gt_loop" | "derive" | "done"
    idx,           \* iterations the current for loop has completed
    outcome,       \* "running" | "printed" | "ZeroDivisionError"
    \* calculate_metrics.py, lines 29-35 and to_ccs
    ground_truth,  \* the table read at line 29, a sequence of rows
    min_depth,     \* line 28
    filtered_truth,\* line 33
    map,           \* to_ccs: the list under construction
    total,         \* to_ccs: max(clone_class_id) + 1, "nan" for an empty table
    i,             \* to_ccs: the next index of range(0, total)
    ccs_pc,        \* "filter" | "to_ccs" | "loop" | "returned" | "TypeError"
    \* comparison/compare.py
    correct_set,   \* the set of pairs compare found equivalent
    wrong_set,     \* the set of the other pairs
    arg_a, arg_b,  \* the arguments of the latest call of compare
    calls,         \* the number of calls made
    \* generate_ground_truth.py
    funcs_amd64,   \* the dict of line 57 in insertion order: <<func, bins>>
    func_done,     \* line 56
    clone_class_id,\* line 59
    same_rows,     \* the rows written to ground_truth_same.csv
    pos,           \* iterations the loop of line 66 has completed
    gen_outcome    \* "running" | "done" | "AssertionError"

metricsVars == <<gt, res, tp, fp, fn, cc, subset, best_score, best_other,
                 precision, recall, fscore, pc, idx, outcome>>

ccsVars == <<ground_truth, min_depth, filtered_truth, map, total, i, ccs_pc>>

compareVars == <<correct_set, wrong_set, arg_a, arg_b, calls>>

generateVars == <<funcs_amd64, func_done, clone_class_id, same_rows, pos,
                  gen_outcome>>

vars == <<metricsVars, ccsVars, compareVars, generateVars>>

\* the scoring part is not running
MetricsOff ==
    /\ gt = <<>> /\ res = <<>>
    /\ tp = 0 /\ fp = 0 /\ fn = 0
    /\ cc = {} /\ subset = FALSE
    /\ best_score = <<0, 1>> /\ best_other = {}
    /\ precision = <<0, 0>> /\ recall = <<0, 0>> /\ fscore = <<0, 0>>
    /\ pc = "off" /\ idx = 0 /\ outcome = "running"

\* to_ccs is not running
CcsOff ==
    /\ ground_truth = <<>> /\ min_depth = 0 /\ filtered_truth = <<>>
    /\ map = <<>> /\ total = 0 /\ i = 0
    /\ ccs_pc = "off"

\* compare.py is not running
CompareOff ==
    /\ correct_set = {} /\ wrong_set = {}
    /\ arg_a = <<>> /\ arg_b = <<>>
    /\ calls = 0

\* generate_ground_truth.py is not running
GenerateOff ==
    /\ funcs_amd64 = <<>> /\ func_done = {}
    /\ clone_class_id = -1 /\ same_rows = {}
    /\ pos = 0 /\ gen_outcome = "off"

(***************************************************************************)
(* calculate_metrics.py, lines 37-72: the scoring passes.                  *)
(*                                                                         *)
(* What to_ccs can return: one set per index 0..max(clone_class_id); the   *)
(* row holding the maximum puts a member into the last set, the other sets *)
(* may be empty, and the list is empty when the maximum is negative        *)
(* (range(0, total) with total <= 0).  SpecCcs checks this shape           *)
(* (CcsShape).                                                             *)
(***************************************************************************)
CcsLists ==
    { s \in UNION { [1..n -> SUBSET Idents] : n \in 0..MaxClasses } :
        Len(s) > 0 => s[Len(s)] # {} }

(***************************************************************************)
(* A Python float that is the quotient of two small integers is kept as    *)
(* the pair <<n, d>>; the quotients of distinct small fractions are        *)
(* distinct floats, so comparing the floats is comparing the fractions.    *)
(***************************************************************************)
FracGt(x, y) == x[1] * y[2] > y[1] * x[2]

\* the flag of lines 39-42 without the test cc != set2
IsSubsetOfAny(c, coll) ==
    \E k \in 1..Len(coll) : c \subseteq coll[k]

\* lines 39-42 and 56-59: the flag after the inner loop over the collection;
\* != and issubset compare the sets by value
IsSubsetOfOther(c, coll) ==
    \E k \in 1..Len(coll) : c # coll[k] /\ c \subseteq coll[k]

\* line 49 raises ZeroDivisionError when the union is empty
JaccardRaises(c, coll) ==
    \E k \in 1..Len(coll) : c \union coll[k] = {}

\* the scan of lines 45-51 with >= for >: it keeps the last maximum
RECURSIVE JaccardScanLast(_, _, _, _, _)
JaccardScanLast(c, coll, k, bs, bo) ==
    IF k > Len(coll) THEN <<bs, bo>>
    ELSE LET other == coll[k]
             score == <<Cardinality(c \intersect other),
                        Cardinality(c \union other)>>
         IN  IF ~FracGt(bs, score)
             THEN JaccardScanLast(c, coll, k + 1, score, other)
             ELSE JaccardScanLast(c, coll, k + 1, bs, bo)

\* lines 45-51: the scan of gt from position k on, keeping the first maximum
RECURSIVE JaccardScan(_, _, _, _, _)
JaccardScan(c, coll, k, bs, bo) ==
    IF k > Len(coll) THEN <<bs, bo>>
    ELSE LET other == coll[k]
             union == c \union other
             intersection == c \intersect other
             score == <<Cardinality(intersection), Cardinality(union)>>
         IN  IF FracGt(score, bs)
             THEN JaccardScan(c, coll, k + 1, score, other)
             ELSE JaccardScan(c, coll, k + 1, bs, bo)

\* the scan of lines 62-66 scoring by difference instead of intersection
RECURSIVE DifferenceScan(_, _, _, _, _)
DifferenceScan(c, coll, k, bs, bo) ==
    IF k > Len(coll) THEN <<bs, bo>>
    ELSE LET other == coll[k]
             score == <<Cardinality(c \ other), 1>>
         IN  IF FracGt(score, bs)
             THEN DifferenceScan(c, coll, k + 1, score, other)
             ELSE DifferenceScan(c, coll, k + 1, bs, bo)

\* lines 62-66: the scan of res from position k on, by intersection size
RECURSIVE IntersectionScan(_, _, _, _, _)
IntersectionScan(c, coll, k, bs, bo) ==
    IF k > Len(coll) THEN <<bs, bo>>
    ELSE LET other == coll[k]
             score == <<Cardinality(c \intersect other), 1>>
         IN  IF FracGt(score, bs)
             THEN IntersectionScan(c, coll, k + 1, score, other)
             ELSE IntersectionScan(c, coll, k + 1, bs, bo)

\* line 52 counting the union
TpGainUnion(c, other) == Cardinality(c \union other)

\* line 52
TpGain(c, other) == Cardinality(c \intersect other)

\* line 53 with the operands of the difference exchanged
FpGainOther(c, other) == Cardinality(other \ c)

\* line 53
FpGain(c, other) == Cardinality(c \ other)

\* line 54
FnGain(c, other) == Cardinality(other \ c)

\* line 71 with the numerator not doubled
FscoreOfHalf(t, p, n) == <<t, 2 * t + p + n>>

\* line 71
FscoreOf(t, p, n) == <<2 * t, 2 * t + p + n>>

\* line 37, with gt and res as to_ccs returned them
Init ==
    /\ gt \in CcsLists
    /\ res \in CcsLists
    /\ tp = 0 /\ fp = 0 /\ fn = 0
    /\ cc = {}
    /\ subset = FALSE
    /\ best_score = <<0, 1>>
    /\ best_other = {}
    /\ precision = <<0, 0>> /\ recall = <<0, 0>> /\ fscore = <<0, 0>>
    /\ pc = "res_loop"
    /\ idx = 0
    /\ outcome = "running"
    /\ CcsOff
    /\ CompareOff
    /\ GenerateOff

\* lines 38-54: one iteration of the detected-to-truth loop
ResIteration ==
    /\ pc = "res_loop" /\ outcome = "running" /\ idx < Len(res)
    /\ LET c == res[idx + 1]
           sub == IsSubsetOfOther(c, res)
           best == JaccardScan(c, gt, 1, <<0, 1>>, {})
       IN  /\ cc' = c
           /\ subset' = sub
           /\ IF sub
              THEN /\ idx' = idx + 1
                   /\ UNCHANGED <<best_score, best_other, tp, fp, fn, outcome>>
              ELSE IF JaccardRaises(c, gt)
              THEN /\ outcome' = "ZeroDivisionError"
                   /\ UNCHANGED <<best_score, best_other, tp, fp, fn, idx>>
              ELSE /\ best_score' = best[1]
                   /\ best_other' = best[2]
                   /\ tp' = tp + TpGain(c, best[2])
                   /\ fp' = fp + FpGain(c, best[2])
                   /\ fn' = fn + FnGain(c, best[2])
                   /\ idx' = idx + 1
                   /\ UNCHANGED outcome
    /\ UNCHANGED <<gt, res, precision, recall, fscore, pc>>
    /\ UNCHANGED <<ccsVars, compareVars, generateVars>>

\* line 38 -> line 55: the first loop is exhausted
ResExhausted ==
    /\ pc = "res_loop" /\ outcome = "running" /\ idx = Len(res)
    /\ pc' = "gt_loop"
    /\ idx' = 0
    /\ UNCHANGED <<gt, res, tp, fp, fn, cc, subset, best_score, best_other,
                   precision, recall, fscore, outcome>>
    /\ UNCHANGED <<ccsVars, compareVars, generateVars>>

\* lines 55-68: one iteration of the truth-to-detected loop
GtIteration ==
    /\ pc = "gt_loop" /\ outcome = "running" /\ idx < Len(gt)
    /\ LET c == gt[idx + 1]
           sub == IsSubsetOfOther(c, gt)
           best == IntersectionScan(c, res, 1, <<0, 1>>, {})
       IN  /\ cc' = c
           /\ subset' = sub
           /\ IF sub
              THEN UNCHANGED <<best_score, best_other, fn>>
              ELSE /\ best_score' = best[1]
                   /\ best_other' = best[2]
                   /\ fn' = IF best[1][1] = 0 THEN fn + Cardinality(c) ELSE fn
    /\ idx' = idx + 1
    /\ UNCHANGED <<gt, res, tp, fp, precision, recall, fscore, pc, outcome>>
    /\ UNCHANGED <<ccsVars, compareVars, generateVars>>

\* line 55 -> line 69: the second loop is exhausted
GtExhausted ==
    /\ pc = "gt_loop" /\ outcome = "running" /\ idx = Len(gt)
    /\ pc' = "derive"
    /\ idx' = 0
    /\ UNCHANGED <<gt, res, tp, fp, fn, cc, subset, best_score, best_other,
                   precision, recall, fscore, outcome>>
    /\ UNCHANGED <<ccsVars, compareVars, generateVars>>

\* lines 69-72: the three quotients and the print; a zero denominator raises
\* ZeroDivisionError at line 69 or 70 and nothing is printed
Derive ==
    /\ pc = "derive" /\ outcome = "running"
    /\ IF tp + fp = 0
       THEN /\ outcome' = "ZeroDivisionError"
            /\ UNCHANGED <<precision, recall, fscore>>
       ELSE IF tp + fn = 0
       THEN /\ outcome' = "ZeroDivisionError"
            /\ precision' = <<tp, tp + fp>>
            /\ UNCHANGED <<recall, fscore>>
       ELSE /\ outcome' = "printed"
            /\ precision' = <<tp, tp + fp>>
            /\ recall' = <<tp, tp + fn>>
            /\ fscore' = FscoreOf(tp, fp, fn)
    /\ pc' = "done"
    /\ UNCHANGED <<gt, res, tp, fp, fn, cc, subset, best_score, best_other, idx>>
    /\ UNCHANGED <<ccsVars, compareVars, generateVars>>

Next ==
    \/ ResIteration
    \/ ResExhausted
    \/ GtIteration
    \/ GtExhausted
    \/ Derive

Spec == Init /\ [][Next]_vars

(***************************************************************************)
(* calculate_metrics.py, lines 10-23 and 28-35: the depth filter and       *)
(* to_ccs, on the ground-truth table (lines 34 and 36 do the same to the   *)
(* results table, filtering on class_depth).                               *)
(*                                                                         *)
(* A table is the sequence of its rows.  A path is the sequence of its     *)
(* components, and a string built by concatenation the sequence of the     *)
(* strings concatenated.                                                   *)
(***************************************************************************)
Rows ==
    [clone_class_id : (-1)..MaxClassId,
     depth : 0..MaxDepth,
     arch : {"x86"},
     bits : {64},
     binary : {<<"bin", "ls">>, <<"ls">>},
     function : {"f", "g"}]

Tables == UNION { [1..n -> Rows] : n \in 0..MaxRows }

\* line 19: os.path.basename, the last component of the path
Basename(path) == path[Len(path)]

\* line 21: the identifier of a row
Identifier(row) ==
    <<"[", row.arch, row.bits, "]", Basename(row.binary), "::", row.function>>

\* lines 32-34: df.loc[df["depth"] >= min_depth], the rows kept in order
RECURSIVE DepthFilter(_, _)
DepthFilter(df, d) ==
    IF df = <<>> THEN <<>>
    ELSE IF Head(df).depth >= d
         THEN <<Head(df)>> \o DepthFilter(Tail(df), d)
         ELSE DepthFilter(Tail(df), d)

\* line 12: df["clone_class_id"].max(), of a table with a row
MaxId(df) ==
    CHOOSE m \in { df[k].clone_class_id : k \in 1..Len(df) } :
        \A k \in 1..Len(df) : df[k].clone_class_id <= m

\* lines 14-21: the set built for index n
Clones(df, n) ==
    { Identifier(df[k]) : k \in { j \in 1..Len(df) : df[j].clone_class_id = n } }

\* lines 28-29: the table and the minimum depth have been read
InitCcs ==
    /\ ground_truth \in Tables
    /\ min_depth \in 0..MaxDepth
    /\ filtered_truth = <<>>
    /\ map = <<>> /\ total = 0 /\ i = 0
    /\ ccs_pc = "filter"
    /\ MetricsOff
    /\ CompareOff
    /\ GenerateOff

\* line 33
FilterTruth ==
    /\ ccs_pc = "filter"
    /\ filtered_truth' = DepthFilter(ground_truth, min_depth)
    /\ ccs_pc' = "to_ccs"
    /\ UNCHANGED <<ground_truth, min_depth, map, total, i>>
    /\ UNCHANGED <<metricsVars, compareVars, generateVars>>

\* lines 11-13: max() of an empty column is NaN, NaN + 1 is NaN and
\* range(0, NaN) raises TypeError
ToCcsEnter ==
    /\ ccs_pc = "to_ccs"
    /\ map' = <<>>
    /\ i' = 0
    /\ IF filtered_truth = <<>>
       THEN total' = "nan" /\ ccs_pc' = "TypeError"
       ELSE total' = MaxId(filtered_truth) + 1 /\ ccs_pc' = "loop"
    /\ UNCHANGED <<ground_truth, min_depth, filtered_truth>>
    /\ UNCHANGED <<metricsVars, compareVars, generateVars>>

\* lines 13-22: one iteration of the loop over range(0, total)
ToCcsIteration ==
    /\ ccs_pc = "loop" /\ i < total
    /\ map' = Append(map, Clones(filtered_truth, i))
    /\ i' = i + 1
    /\ UNCHANGED <<ground_truth, min_depth, filtered_truth, total, ccs_pc>>
    /\ UNCHANGED <<metricsVars, compareVars, generateVars>>

\* lines 23 and 35: the range is exhausted, gt = to_ccs(filtered_truth)
ToCcsReturn ==
    /\ ccs_pc = "loop" /\ i >= total
    /\ gt' = map
    /\ ccs_pc' = "returned"
    /\ UNCHANGED <<res, tp, fp, fn, cc, subset, best_score, best_other,
                   precision, recall, fscore, pc, idx, outcome>>
    /\ UNCHANGED <<ground_truth, min_depth, filtered_truth, map, total, i>>
    /\ UNCHANGED <<compareVars, generateVars>>

NextCcs ==
    \/ FilterTruth
    \/ ToCcsEnter
    \/ ToCcsIteration
    \/ ToCcsReturn

SpecCcs == InitCcs /\ [][NextCcs]_vars

(***************************************************************************)
(* comparison/compare.py, lines 9-53.  A name is the sequence of its       *)
(* characters.                                                             *)
(***************************************************************************)
\* the characters of the names in the order of their code points
Alphabet ==
    <<".", "0", "1", "2", "3", "4", "5", "6", "7", "8", "9",
      "A", "B", "C", "D", "E", "F", "G", "H", "I", "J", "K", "L", "M",
      "N", "O", "P", "Q", "R", "S", "T", "U", "V", "W", "X", "Y", "Z",
      "_",
      "a", "b", "c", "d", "e", "f", "g", "h", "i", "j", "k", "l", "m",
      "n", "o", "p", "q", "r", "s", "t", "u", "v", "w", "x", "y", "z">>

Ord(ch) == CHOOSE k \in 1..Len(Alphabet) : Alphabet[k] = ch

\* line 44: a > b on strings
RECURSIVE StrGt(_, _)
StrGt(a, b) ==
    IF a = <<>> THEN FALSE
    ELSE IF b = <<>> THEN TRUE
    ELSE IF Head(a) = Head(b) THEN StrGt(Tail(a), Tail(b))
    ELSE Ord(Head(a)) > Ord(Head(b))

\* lines 41 and 43, str.find: the index, from 0, of the first occurrence of
\* ch, -1 if there is none
RECURSIVE FindFrom(_, _, _)
FindFrom(a, ch, k) ==
    IF k > Len(a) THEN -1
    ELSE IF a[k] = ch THEN k - 1
    ELSE FindFrom(a, ch, k + 1)

Find(a, ch) == FindFrom(a, ch, 1)

\* lines 40-43: the name without its prefix
StripPrefix(a) ==
    IF \E k \in 1..Len(a) : a[k] = "."
    THEN SubSeq(a, Find(a, ".") + 2, Len(a))
    ELSE a

\* lines 44-45 without the exchange
KeepOrder(a, b) == <<a, b>>

\* lines 44-45
OrderPair(a, b) == IF StrGt(a, b) THEN <<b, a>> ELSE <<a, b>>

main == <<"m", "a", "i", "n">>

\* compare.py lines 9-36: the known equivalence groups, each name a
\* sequence of characters
jointp == <<
    {<<"m", "d", "5", "_", "f", "i", "n", "i", "s", "h", "_", "c", "t", "x">>,
     <<"s", "h", "a", "1", "_", "f", "i", "n", "i", "s", "h", "_", "c", "t", "x">>},
    {<<"i", "m", "a", "x", "t", "o", "s", "t", "r">>,
     <<"o", "f", "f", "t", "o", "s", "t", "r">>,
     <<"i", "n", "t", "t", "o", "s", "t", "r">>},
    {<<"g", "e", "t", "g", "r", "o", "u", "p">>,
     <<"g", "e", "t", "u", "s", "e", "r">>},
    {<<"s", "a", "f", "e", "r", "e", "a", "d">>,
     <<"s", "a", "f", "e", "w", "r", "i", "t", "e">>},
    {<<"g", "e", "t", "g", "i", "d", "b", "y", "n", "a", "m", "e">>,
     <<"g", "e", "t", "u", "i", "d", "b", "y", "n", "a", "m", "e">>},
    {<<"i", "m", "a", "x", "t", "o", "s", "t", "r">>,
     <<"u", "m", "a", "x", "t", "o", "s", "t", "r">>},
    {<<"s", "h", "a", "5", "1", "2", "_", "r", "e", "a", "d", "_", "c", "t", "x">>,
     <<"s", "h", "a", "2", "2", "4", "_", "r", "e", "a", "d", "_", "c", "t", "x">>,
     <<"s", "h", "a", "3", "8", "4", "_", "r", "e", "a", "d", "_", "c", "t", "x">>,
     <<"s", "h", "a", "2", "5", "6", "_", "r", "e", "a", "d", "_", "c", "t", "x">>,
     <<"s", "h", "a", "5", "1", "2", "_", "f", "i", "n", "i", "s", "h", "_", "c", "t", "x">>,
     <<"s", "h", "a", "2", "2", "4", "_", "f", "i", "n", "i", "s", "h", "_", "c", "t", "x">>,
     <<"s", "h", "a", "3", "8", "4", "_", "f", "i", "n", "i", "s", "h", "_", "c", "t", "x">>,
     <<"s", "h", "a", "2", "5", "6", "_", "f", "i", "n", "i", "s", "h", "_", "c", "t", "x">>},
    {<<"o", "u", "t", "p", "u", "t", "_", "c", "r", "c">>,
     <<"o", "u", "t", "p", "u", "t", "_", "b", "s", "d">>,
     <<"o", "u", "t", "p", "u", "t", "_", "s", "y", "s", "v">>},
    {<<"q", "u", "o", "t", "e", "a", "r", "g", "_", "c", "u", "s", "t", "o", "m", "_", "m", "e", "m">>,
     <<"q", "u", "o", "t", "e", "a", "r", "g", "_", "c", "u", "s", "t", "o", "m">>,
     <<"q", "u", "o", "t", "e", "a", "r", "g", "_", "n", "_", "c", "u", "s", "t", "o", "m", "_", "m", "e", "m">>,
     <<"q", "u", "o", "t", "e", "a", "r", "g", "_", "n", "_", "c", "u", "s", "t", "o", "m">>},
    {<<"q", "u", "o", "t", "e", "a", "r", "g", "_", "s", "t", "y", "l", "e">>,
     <<"q", "u", "o", "t", "e", "a", "r", "g", "_", "s", "t", "y", "l", "e", "_", "m", "e", "m">>,
     <<"q", "u", "o", "t", "e", "a", "r", "g", "_", "n", "_", "s", "t", "y", "l", "e">>,
     <<"q", "u", "o", "t", "e", "a", "r", "g", "_", "n", "_", "s", "t", "y", "l", "e", "_", "c", "o", "l", "o", "n">>,
     <<"q", "u", "o", "t", "e", "a", "r", "g", "_", "n", "_", "s", "t", "y", "l", "e", "_", "m", "e", "m">>},
    {<<"s", "h", "a", "2", "2", "4", "_", "b", "u", "f", "f", "e", "r">>,
     <<"s", "h", "a", "2", "5", "6", "_", "b", "u", "f", "f", "e", "r">>,
     <<"s", "h", "a", "3", "8", "4", "_", "b", "u", "f", "f", "e", "r">>,
     <<"s", "h", "a", "5", "1", "2", "_", "b", "u", "f", "f", "e", "r">>},
    {<<"s", "h", "a", "2", "5", "6", "_", "p", "r", "o", "c", "e", "s", "s", "_", "b", "l", "o", "c", "k">>,
     <<"s", "h", "a", "5", "1", "2", "_", "p", "r", "o", "c", "e", "s", "s", "_", "b", "l", "o", "c", "k">>},
    {<<"f", "t", "o", "a", "s", "t", "r">>,
     <<"d", "t", "o", "a", "s", "t", "r">>,
     <<"l", "d", "t", "o", "a", "s", "t", "r">>},
    {<<"r", "e", "v", "_", "x", "s", "t", "r", "c", "o", "l", "l", "_", "w", "i", "d", "t", "h">>,
     <<"r", "e", "v", "_", "s", "t", "r", "c", "m", "p", "_", "w", "i", "d", "t", "h">>,
     <<"x", "s", "t", "r", "c", "o", "l", "l", "_", "w", "i", "d", "t", "h">>,
     <<"s", "t", "r", "c", "m", "p", "_", "w", "i", "d", "t", "h">>},
    {<<"o", "p", "e", "n", "_", "s", "a", "f", "e", "r">>,
     <<"o", "p", "e", "n", "a", "t", "_", "s", "a", "f", "e", "r">>,
     <<"o", "p", "e", "n", "d", "i", "r", "_", "s", "a", "f", "e", "r">>},
    {<<"x", "s", "t", "r", "c", "o", "l", "l", "_", "a", "t", "i", "m", "e">>,
     <<"x", "s", "t", "r", "c", "o", "l", "l", "_", "c", "t", "i", "m", "e">>},
    {<<"q", "u", "o", "t", "e", "a", "r", "g", "_", "c", "h", "a", "r">>,
     <<"q", "u", "o", "t", "e", "a", "r", "g", "_", "c", "h", "a", "r", "_", "m", "e", "m">>},
    {<<"x", "i", "z", "a", "l", "l", "o", "c">>,
     <<"x", "z", "a", "l", "l", "o", "c">>},
    {<<"x", "m", "e", "m", "d", "u", "p">>,
     <<"x", "i", "m", "e", "m", "d", "u", "p">>,
     <<"x", "i", "m", "e", "m", "d", "u", "p", "0">>},
    {<<"f", "d", "_", "s", "a", "f", "e", "r">>,
     <<"f", "d", "_", "s", "a", "f", "e", "r", "_", "f", "l", "a", "g">>},
    {<<"A", "D", "_", "c", "o", "m", "p", "a", "r", "e">>,
     <<"d", "e", "v", "_", "i", "n", "o", "_", "c", "o", "m", "p", "a", "r", "e">>,
     <<"s", "r", "c", "_", "t", "o", "_", "d", "e", "s", "t", "_", "c", "o", "m", "p", "a", "r", "e">>}
>>

\* the names the calls of compare are given
CompareNames == {
    <<"a", ".", "f", "o", "o">>,
    <<"b", ".", "f", "o", "o">>,
    <<"a", ".", "b", ".", "f", "o", "o">>,
    <<"x", ".", "m", "a", "i", "n">>,
    <<"y", ".", "m", "a", "i", "n">>,
    <<"a", ".", "m", "d", "5", "_", "f", "i", "n", "i", "s", "h", "_", "c", "t", "x">>,
    <<"b", ".", "s", "h", "a", "1", "_", "f", "i", "n", "i", "s", "h", "_", "c", "t", "x">>,
    <<"i", "m", "a", "x", "t", "o", "s", "t", "r">>,
    <<"d", "b", "g", ".", "u", "m", "a", "x", "t", "o", "s", "t", "r">>,
    <<"d", "b", "g", ".", "o", "f", "f", "t", "o", "s", "t", "r">>
}

\* lines 113-114 and 125-126: the two sets are empty before the first call
InitCompare ==
    /\ correct_set = {} /\ wrong_set = {}
    /\ arg_a = <<>> /\ arg_b = <<>>
    /\ calls = 0
    /\ MetricsOff
    /\ CcsOff
    /\ GenerateOff

\* lines 39-53: one call compare(a, b, correct_set, wrong_set); pair is
\* (a, b) after lines 40-45
Compare(a, b) ==
    /\ calls < MaxCalls
    /\ \E pair \in {OrderPair(StripPrefix(a), StripPrefix(b))} :
           IF pair[1] = pair[2] /\ pair[1] # main
           THEN /\ correct_set' = correct_set \union {pair}
                /\ UNCHANGED wrong_set
           ELSE IF \E k \in 1..Len(jointp) :
                       pair[1] \in jointp[k] /\ pair[2] \in jointp[k]
           THEN /\ correct_set' = correct_set \union {pair}
                /\ UNCHANGED wrong_set
           ELSE /\ wrong_set' = wrong_set \union {pair}
                /\ UNCHANGED correct_set
    /\ arg_a' = a
    /\ arg_b' = b
    /\ calls' = calls + 1
    /\ UNCHANGED <<metricsVars, ccsVars, generateVars>>

NextCompare == \E a \in CompareNames, b \in CompareNames : Compare(a, b)

SpecCompare == InitCompare /\ [][NextCompare]_vars

(***************************************************************************)
(* generate_ground_truth.py, lines 7-92: the loop over the amd64 function   *)
(* map and the rows it writes to ground_truth_same.csv.  Lines 93-112 write *)
(* to ground_truth_cross.csv only and are left out; so is the depth column, *)
(* which is copied from the input table.                                    *)
(***************************************************************************)
\* lines 7-34: the groups of functions joined into one clone class
jointp_ground_truth == <<
    {"dbg.md5_finish_ctx", "dbg.sha1_finish_ctx"},
    {"dbg.imaxtostr", "dbg.offtostr", "dbg.inttostr"},
    {"dbg.getgroup", "dbg.getuser"},
    {"dbg.saferead", "dbg.safewrite"},
    {"dbg.getgidbyname", "dbg.getuidbyname"},
    {"dbg.imaxtostr", "dbg.umaxtostr"},
    {"sym.sha512_read_ctx", "sym.sha224_read_ctx", "sym.sha384_read_ctx",
     "sym.sha256_read_ctx", "sym.sha512_finish_ctx",
     "sym.sha224_finish_ctx", "sym.sha384_finish_ctx",
     "sym.sha256_finish_ctx"},
    {"dbg.output_crc", "dbg.output_bsd", "dbg.output_sysv"},
    {"sym.quotearg_custom_mem", "sym.quotearg_custom",
     "sym.quotearg_n_custom_mem", "sym.quotearg_n_custom"},
    {"sym.quotearg_style", "sym.quotearg_style_mem",
     "sym.quotearg_n_style", "sym.quotearg_n_style_colon",
     "sym.quotearg_n_style_mem"},
    {"dbg.sha224_buffer", "dbg.sha256_buffer", "dbg.sha384_buffer",
     "dbg.sha512_buffer"},
    {"dbg.sha256_process_block", "dbg.sha512_process_block"},
    {"dbg.ftoastr", "dbg.dtoastr", "dbg.ldtoastr"},
    {"dbg.rev_xstrcoll_width", "dbg.rev_strcmp_width",
     "dbg.xstrcoll_width", "dbg.strcmp_width"},
    {"dbg.open_safer", "dbg.openat_safer", "dbg.opendir_safer"},
    {"dbg.xstrcoll_atime", "dbg.xstrcoll_ctime"},
    {"sym.quotearg_char", "sym.quotearg_char_mem"},
    {"dbg.xizalloc", "dbg.xzalloc"},
    {"sym.xmemdup", "dbg.ximemdup", "dbg.ximemdup0"},
    {"dbg.fd_safer", "dbg.fd_safer_flag"},
    {"dbg.AD_compare", "dbg.dev_ino_compare", "dbg.src_to_dest_compare"}
>>

\* the function names of the input list
GenerateNames ==
    {"dbg.imaxtostr", "dbg.offtostr", "dbg.inttostr", "dbg.umaxtostr",
     "sym.foo"}

\* the binaries of the input list
GenerateBins == {"ls", "du"}

\* lines 37-53: what clone_map returns, the functions in the order of their
\* first row, each with the non-empty set of the binaries that hold it
FuncMaps ==
    { m \in UNION { [1..n -> GenerateNames \X (SUBSET GenerateBins \ {{}})] :
                      n \in 0..MaxFuncs } :
        \A j, k \in 1..Len(m) : j # k => m[j][1] # m[k][1] }

\* the keys of the dict
Keys(m) == { m[k][1] : k \in 1..Len(m) }

\* line 77: funcs_amd64[func]
BinsOf(m, func) == m[CHOOSE k \in 1..Len(m) : m[k][1] = func][2]

\* lines 67-71: func_set after the scan of jointp from position k on; the
\* last group that holds func is kept
RECURSIVE FuncSetScan(_, _, _)
FuncSetScan(func, k, func_set) ==
    IF k > Len(jointp_ground_truth) THEN func_set
    ELSE IF func \in jointp_ground_truth[k]
         THEN FuncSetScan(func, k + 1, jointp_ground_truth[k])
         ELSE FuncSetScan(func, k + 1, func_set)

\* lines 80-86: the rows written for func under class id n, none when one
\* binary only holds it
SameRows(m, func, n) ==
    IF Cardinality(BinsOf(m, func)) > 1
    THEN { [arch |-> "x86", bits |-> "64", binary |-> b, function |-> func,
            clone_class_id |-> n] : b \in BinsOf(m, func) }
    ELSE {}

\* lines 56-59: the function map has been read
InitGenerate ==
    /\ funcs_amd64 \in FuncMaps
    /\ func_done = {}
    /\ clone_class_id = -1
    /\ same_rows = {}
    /\ pos = 0
    /\ gen_outcome = "running"
    /\ MetricsOff
    /\ CcsOff
    /\ CompareOff

\* lines 66-92: one iteration of the loop over funcs_amd64.items().  The
\* inner loop of line 74 visits func_set in the order of the set; when a
\* member is no key of funcs_amd64 the assert of line 76 stops the run at the
\* first such member visited, after the members visited before it
GenerateIteration ==
    /\ gen_outcome = "running" /\ pos < Len(funcs_amd64)
    /\ clone_class_id' = clone_class_id + 1
    /\ \E func_set \in {FuncSetScan(funcs_amd64[pos + 1][1], 1,
                                    {funcs_amd64[pos + 1][1]})} :
          IF funcs_amd64[pos + 1][1] \in func_done
          THEN /\ pos' = pos + 1
               /\ UNCHANGED <<func_done, same_rows, gen_outcome>>
          ELSE IF func_set \subseteq Keys(funcs_amd64)
          THEN /\ func_done' = func_done \union func_set
               /\ same_rows' = same_rows \union
                     UNION { SameRows(funcs_amd64, f, clone_class_id') :
                               f \in func_set }
               /\ pos' = pos + 1
               /\ UNCHANGED gen_outcome
          ELSE \E missing \in func_set \ Keys(funcs_amd64),
                  before \in SUBSET (func_set \intersect Keys(funcs_amd64)) :
                  /\ func_done' = func_done \union before \union {missing}
                  /\ same_rows' = same_rows \union
                        UNION { SameRows(funcs_amd64, f, clone_class_id') :
                                  f \in before }
                  /\ gen_outcome' = "AssertionError"
                  /\ UNCHANGED pos
    /\ UNCHANGED funcs_amd64
    /\ UNCHANGED <<metricsVars, ccsVars, compareVars>>

\* line 66 -> end of the script: the loop is exhausted, the files are closed
GenerateExhausted ==
    /\ gen_outcome = "running" /\ pos = Len(funcs_amd64)
    /\ gen_outcome' = "done"
    /\ UNCHANGED <<funcs_amd64, func_done, clone_class_id, same_rows, pos>>
    /\ UNCHANGED <<metricsVars, ccsVars, compareVars>>

NextGenerate ==
    \/ GenerateIteration
    \/ GenerateExhausted

SpecGenerate == InitGenerate /\ [][NextGenerate]_vars

(***************************************************************************)
(* Vocabulary of the claims about the scoring passes.                      *)
(***************************************************************************)
\* an iteration of the detected-to-truth loop has just completed
ResStep == pc = "res_loop" /\ idx' = idx + 1

\* an iteration of the truth-to-detected loop has just completed
GtStep == pc = "gt_loop" /\ idx' = idx + 1

Jaccard(d, t) == <<Cardinality(d \intersect t), Cardinality(d \union t)>>

\* the position of the earliest truth class of greatest Jaccard similarity
EarliestBest(d) ==
    CHOOSE m \in 1..Len(gt) :
        /\ \A k \in 1..Len(gt) : ~FracGt(Jaccard(d, gt[k]), Jaccard(d, gt[m]))
        /\ \A k \in 1..(m - 1) : FracGt(Jaccard(d, gt[m]), Jaccard(d, gt[k]))

\* the counters grow by the overlap of d with t
GrowBy(d, t) ==
    /\ tp' = tp + Cardinality(d \intersect t)
    /\ fp' = fp + Cardinality(d \ t)
    /\ fn' = fn + Cardinality(t \ d)

\* position n of coll has a class of the same collection, at another
\* position, that is a superset of it (equal classes included)
HasSupersetSibling(coll, n) ==
    \E k \in 1..Len(coll) : k # n /\ coll[n] \subseteq coll[k]

\* position n of coll has a strict superset in the collection
HasStrictSuperset(coll, n) ==
    \E k \in 1..Len(coll) : coll[n] \subseteq coll[k] /\ coll[n] # coll[k]

RECURSIVE SurvivorSize(_, _)
\* the total size of the classes at positions 1..n of res that have no
\* strict superset in res
SurvivorSize(coll, n) ==
    IF n = 0 THEN 0
    ELSE SurvivorSize(coll, n - 1)
         + (IF HasStrictSuperset(coll, n) THEN 0 ELSE Cardinality(coll[n]))

(***************************************************************************)
(* C1 as stated: for every surviving detected class d, given at least one  *)
(* truth class, the class used for accounting is the earliest truth class  *)
(* of greatest Jaccard similarity, also when every similarity is 0, and    *)
(* the counters grow by the overlap of d with it.                          *)
(***************************************************************************)
C1_AsStated ==
    [][(ResStep /\ ~subset' /\ Len(gt) > 0) =>
         LET t == gt[EarliestBest(cc')]
         IN  best_other' = t /\ GrowBy(cc', t)]_vars

(***************************************************************************)
(* C1 amended: for every surviving detected class d, given at least one    *)
(* truth class: when some truth class shares a member with d, the class    *)
(* used for accounting is the earliest truth class of greatest Jaccard     *)
(* similarity and the counters grow by tp += |d & t|, fp += |d \ t|,       *)
(* fn += |t \ d|; when every similarity is 0 no truth class is used (the   *)
(* accounting class is the empty set) and only fp grows, by |d|.  The      *)
(* scenario detected = [{A,B},{A}], truth = [{A,B,C}] ends with tp = 2,    *)
(* fp = 0, fn = 1.                                                         *)
(***************************************************************************)
C1_BestMatch ==
    /\ [][(ResStep /\ ~subset' /\ Len(gt) > 0) =>
            IF \E k \in 1..Len(gt) : cc' \intersect gt[k] # {}
            THEN LET t == gt[EarliestBest(cc')]
                 IN  best_other' = t /\ GrowBy(cc', t)
            ELSE /\ best_other' = {}
                 /\ tp' = tp /\ fp' = fp + Cardinality(cc') /\ fn' = fn]_vars
    /\ []((/\ res = <<{"A", "B"}, {"A"}>>
           /\ gt = <<{"A", "B", "C"}>>
           /\ pc = "done") => (tp = 2 /\ fp = 0 /\ fn = 1))

\* a surviving detected class was scored against two truth classes of equal
\* similarity and the earlier one was kept
C1_Witness ==
    /\ pc = "res_loop" /\ idx = 1 /\ ~subset
    /\ cc = {"A"}
    /\ gt = <<{"A", "B"}, {"A", "C"}>>
    /\ best_other = {"A", "B"}
    /\ tp = 1 /\ fp = 0 /\ fn = 1

(***************************************************************************)
(* C2 as stated: in each pass a class is skipped if and only if a class at *)
(* a different position of the same collection is a superset of it, strict *)
(* or not, so two equal classes at different positions are both skipped.   *)
(***************************************************************************)
C2_AsStated ==
    /\ (pc = "res_loop" /\ idx > 0 /\ outcome = "running")
          => (subset <=> HasSupersetSibling(res, idx))
    /\ (pc = "gt_loop" /\ idx > 0)
          => (subset <=> HasSupersetSibling(gt, idx))

(***************************************************************************)
(* C2 amended: in each pass a class is skipped (its iteration changes no   *)
(* counter) if and only if some class of the same collection is a strict   *)
(* superset of it; classes equal in value at different positions are not   *)
(* subsets of each other for the filter, and each of them is scored.       *)
(***************************************************************************)
C2_StrictSubsumption ==
    /\ [][ResStep => /\ subset' <=> HasStrictSuperset(res, idx')
                     /\ subset' => UNCHANGED <<tp, fp, fn, best_other>>
                     /\ (~subset' /\ cc' # {}) => tp' + fp' > tp + fp]_vars
    /\ [][GtStep => /\ subset' <=> HasStrictSuperset(gt, idx')
                    /\ subset' => UNCHANGED <<tp, fp, fn, best_other>>]_vars

\* the second of two equal detected classes has been scored like the first
C2_Witness ==
    /\ pc = "res_loop" /\ idx = 2 /\ ~subset
    /\ res = <<{"A"}, {"A"}>>
    /\ tp + fp = 2

(***************************************************************************)
(* C3: in the truth-to-detected pass, for every surviving truth class t,   *)
(* fn grows by |t| if and only if no class of the whole detected           *)
(* collection shares a member with t, otherwise no counter changes; the    *)
(* pass never changes tp or fp.                                            *)
(***************************************************************************)
C3_UnmatchedTruth ==
    /\ [][(GtStep /\ ~subset') =>
            IF \A k \in 1..Len(res) : cc' \intersect res[k] = {}
            THEN fn' = fn + Cardinality(cc')
            ELSE fn' = fn]_vars
    /\ [][pc = "gt_loop" => UNCHANGED <<tp, fp>>]_vars

\* a surviving truth class that no detected class touches was added to fn,
\* after another one that a subsumed detected class touches was not
C3_Witness ==
    /\ pc = "gt_loop" /\ idx = 2 /\ ~subset
    /\ res = <<{"A"}, {"A", "B"}>>
    /\ gt = <<{"A"}, {"C"}>>
    /\ fn = 1

(***************************************************************************)
(* C5 as stated: whenever the two passes end with tp + fp = 0 or           *)
(* tp + fn = 0, the run ends in an explicit domain error, not in a raw     *)
(* arithmetic exception, and no FSCORE line is printed.                    *)
(***************************************************************************)
C5_DomainError ==
    (pc = "done" /\ (tp + fp = 0 \/ tp + fn = 0))
        => outcome \notin {"ZeroDivisionError", "printed"}

(***************************************************************************)
(* C6: with detected = truth = [c] for a non-empty class c the scorer ends *)
(* with tp = |c|, fp = 0, fn = 0 and precision = recall = fscore = 1.0.    *)
(***************************************************************************)
C6_SelfComparison ==
    (Len(res) = 1 /\ gt = res /\ res[1] # {} /\ pc = "done") =>
        /\ tp = Cardinality(res[1]) /\ fp = 0 /\ fn = 0
        /\ outcome = "printed"
        /\ precision[2] > 0 /\ precision[1] = precision[2]
        /\ recall[2] > 0 /\ recall[1] = recall[2]
        /\ fscore[2] > 0 /\ fscore[1] = fscore[2]

\* a class of two members was compared against itself
C6_Witness ==
    /\ pc = "done" /\ outcome = "printed"
    /\ res = <<{"A", "B"}>> /\ gt = res
    /\ tp = 2

\* every identifier of a collection
Members(coll) == UNION { coll[k] : k \in 1..Len(coll) }

\* both collections hold classes, all non-empty, and share no identifier
Disjoint ==
    /\ Len(res) > 0 /\ Len(gt) > 0
    /\ \A k \in 1..Len(res) : res[k] # {}
    /\ \A k \in 1..Len(gt) : gt[k] # {}
    /\ Members(res) \intersect Members(gt) = {}

(***************************************************************************)
(* C7: for non-empty detected and truth collections of non-empty classes   *)
(* that share no function identifier the scorer ends with tp = 0, and with *)
(* fscore = 0.0 whenever tp + fp + fn > 0.                                 *)
(***************************************************************************)
C7_DisjointComparison ==
    (Disjoint /\ pc = "done") =>
        /\ tp = 0
        /\ tp + fp + fn > 0 =>
             outcome = "printed" /\ fscore[1] = 0 /\ fscore[2] > 0

\* two detected classes and one truth class, no identifier in common
C7_Witness ==
    /\ pc = "done" /\ Disjoint
    /\ Len(res) = 2 /\ res[1] # res[2]
    /\ fp = 2 /\ fn = 1 /\ fscore = <<0, 3>>

(***************************************************************************)
(* C8 as stated: every surviving truth class that shares a member with     *)
(* some detected class was selected as the best match of at least one      *)
(* surviving detected class in the detected-to-truth pass.                 *)
(***************************************************************************)
C8_MatchedTruthWasSelected ==
    pc = "derive" =>
        \A j \in 1..Len(gt) :
            (/\ ~IsSubsetOfOther(gt[j], gt)
             /\ \E k \in 1..Len(res) : gt[j] \intersect res[k] # {})
            => \E n \in 1..Len(res) :
                  /\ ~IsSubsetOfOther(res[n], res)
                  /\ JaccardScan(res[n], gt, 1, <<0, 1>>, {})[2] = gt[j]

(***************************************************************************)
(* C10: after each iteration of the detected-to-truth loop tp + fp is the  *)
(* total size of the surviving detected classes processed so far; the      *)
(* truth-to-detected loop leaves tp + fp unchanged, so at the end tp + fp  *)
(* is the total size of the surviving detected classes.                    *)
(***************************************************************************)
C10_Conservation ==
    /\ (pc = "res_loop" /\ outcome = "running")
          => tp + fp = SurvivorSize(res, idx)
    /\ pc \in {"gt_loop", "derive", "done"}
          => tp + fp = SurvivorSize(res, Len(res))

\* two surviving detected classes, matched differently, have been processed
C10_Witness ==
    /\ pc = "res_loop" /\ idx = 2
    /\ res = <<{"A", "B"}, {"B", "C"}>>
    /\ gt = <<{"A"}, {"B", "C"}>>
    /\ tp + fp = 4 /\ tp = 3


(***************************************************************************)
(* Vocabulary of the claims about to_ccs.                                  *)
(***************************************************************************)
\* to_ccs returns nothing or a list whose last set has a member
CcsShape ==
    ccs_pc = "returned" => (Len(gt) > 0 => gt[Len(gt)] # {})

\* every row of the table read carries a clone_class_id >= 0
IdsNonNegative ==
    \A k \in 1..Len(ground_truth) : ground_truth[k].clone_class_id >= 0

(***************************************************************************)
(* C9 as stated: every clone class that to_ccs builds from the             *)
(* depth-filtered rows, one per index 0..max(clone_class_id), is a         *)
(* non-empty set, for any table whose rows carry clone_class_id >= 0.      *)
(***************************************************************************)
C9_ClassesNonEmpty ==
    (ccs_pc = "returned" /\ IdsNonNegative) =>
        \A k \in 1..Len(gt) : gt[k] # {}

(***************************************************************************)
(* Vocabulary of the claims about compare.                                 *)
(***************************************************************************)
\* the name without everything up to and including its first "."
Stripped(name) ==
    IF \A k \in 1..Len(name) : name[k] # "." THEN name
    ELSE LET d == CHOOSE k \in 1..Len(name) :
                      name[k] = "." /\ \A j \in 1..(k - 1) : name[j] # "."
         IN  SubSeq(name, d + 1, Len(name))

\* x comes before y in the lexicographic order of the code points
LexLess(x, y) ==
    \E k \in 1..(Len(x) + 1) :
        /\ k <= Len(y)
        /\ \A j \in 1..(k - 1) : x[j] = y[j]
        /\ k = Len(x) + 1 \/ Ord(x[k]) < Ord(y[k])

\* the two stripped names, the lesser first
LexPair(x, y) == IF LexLess(y, x) THEN <<y, x>> ELSE <<x, y>>

\* the two stripped names are one name that is not main, or members of one
\* group of jointp
Equivalent(x, y) ==
    \/ x = y /\ x # main
    \/ \E k \in 1..Len(jointp) : {x, y} \subseteq jointp[k]

\* the latest call was compare(a, b)
Called(a, b) == calls > 0 /\ arg_a = a /\ arg_b = b

(***************************************************************************)
(* C4: compare(a, b, correct_set, wrong_set) strips from each name         *)
(* everything up to and including its first ".", orders the two names      *)
(* lexicographically and adds the ordered pair to exactly one of the two   *)
(* sets: to correct_set if the stripped names are equal and not "main" or  *)
(* both belong to one group of jointp, otherwise to wrong_set.  The        *)
(* outcome of compare(b, a) is that of compare(a, b): made after it, it    *)
(* changes neither set.  (a.foo, b.foo) is correct, (x.main, y.main) is    *)
(* wrong, (a.md5_finish_ctx, b.sha1_finish_ctx) is correct.                *)
(***************************************************************************)
C4_Compare ==
    /\ [][calls' = calls + 1 =>
            \A pair \in {LexPair(Stripped(arg_a'), Stripped(arg_b'))} :
                IF Equivalent(pair[1], pair[2])
                THEN /\ correct_set' = correct_set \union {pair}
                     /\ wrong_set' = wrong_set
                ELSE /\ wrong_set' = wrong_set \union {pair}
                     /\ correct_set' = correct_set]_vars
    /\ [][(calls > 0 /\ calls' = calls + 1
             /\ arg_a' = arg_b /\ arg_b' = arg_a)
            => UNCHANGED <<correct_set, wrong_set>>]_vars
    /\ [](correct_set \intersect wrong_set = {})
    /\ [](Called(<<"a", ".", "f", "o", "o">>, <<"b", ".", "f", "o", "o">>)
            => <<<<"f", "o", "o">>, <<"f", "o", "o">>>> \in correct_set)
    /\ [](Called(<<"x", ".", "m", "a", "i", "n">>,
                 <<"y", ".", "m", "a", "i", "n">>)
            => <<main, main>> \in wrong_set)
    /\ [](Called(<<"a", ".", "m", "d", "5", "_", "f", "i", "n", "i", "s",
                   "h", "_", "c", "t", "x">>,
                 <<"b", ".", "s", "h", "a", "1", "_", "f", "i", "n", "i",
                   "s", "h", "_", "c", "t", "x">>)
            => <<<<"m", "d", "5", "_", "f", "i", "n", "i", "s", "h", "_",
                   "c", "t", "x">>,
                 <<"s", "h", "a", "1", "_", "f", "i", "n", "i", "s", "h",
                   "_", "c", "t", "x">>>> \in correct_set)

\* compare(dbg.umaxtostr, dbg.offtostr), two names of different groups that
\* share imaxtostr, went to wrong_set in lexicographic order, and
\* compare(dbg.offtostr, dbg.umaxtostr) after it changed nothing
C4_Witness ==
    /\ calls = 2
    /\ arg_a = <<"d", "b", "g", ".", "o", "f", "f", "t", "o", "s", "t", "r">>
    /\ arg_b = <<"d", "b", "g", ".", "u", "m", "a", "x", "t", "o", "s", "t", "r">>
    /\ wrong_set = {<<Stripped(arg_a), Stripped(arg_b)>>}
    /\ correct_set = {}

(***************************************************************************)
(* C11 as stated: over the loop on the amd64 function map, func_done       *)
(* guarantees that each function name is written to ground_truth_same.csv  *)
(* under at most one clone_class_id, for any input function list and the   *)
(* fixed jointp groups.                                                    *)
(***************************************************************************)
C11_OneClassPerFunction ==
    gen_outcome = "done" =>
        \A r1 \in same_rows, r2 \in same_rows :
            r1.function = r2.function => r1.clone_class_id = r2.clone_class_id

=============================================================================
